---------------------------- MODULE Spec2Model ----------------------------
(***************************************************************************)
(* TelegramNews: a relay that forwards channel posts to a webhook.         *)
(*                                                                         *)
(* The module models TelegramNewsBot (src/app.py): the pure helpers        *)
(* (_group_messages, _build_payload, escape_markdown_v2, format_caption),  *)
(* the backfill run (fetch_messages) and the listen session                *)
(* (listen_for_new_messages and its NewMessage handler).                   *)
(*                                                                         *)
(* Strings are sequences of one-character strings, so that the regular     *)
(* expression passes of the code can be computed character by character.   *)
(***************************************************************************)
EXTENDS Integers, Sequences, FiniteSets, TLC

\* ------------------------------------------------------------------------
\* Bounds of the model
\* ------------------------------------------------------------------------

\* Messages published over a whole behaviour (all chats together).
MaxMsgs == 3

\* Runs (backfill runs and listen sessions) started on the one bot over a
\* whole behaviour.
MaxRuns == 2

\* Size of the handler's re-fetch window.  The code asks for 20 messages
\* (iter_messages(chat, limit=20)); the model scales the window down so that
\* a history can outgrow it.
Window == 2

\* Length of the batches handed to the pure functions in PureSpec.
MaxBatch == 3

\* Length of the URLs of the texts handed to escape_markdown_v2 in MarkupSpec.
MaxUrl == 5

\* ------------------------------------------------------------------------
\* Values
\* ------------------------------------------------------------------------

\* Python's None for Message.grouped_id.
None == -1

\* Python truthiness of an Optional[int]: None and 0 are falsy.
Truthy(x) == x # None /\ x # 0

\* "a or b" on Optional[int] operands.
PyOr(a, b) == IF Truthy(a) THEN a ELSE b

\* The literal at the head of every caption (its text is not inspected).
FwdPrefix == <<"Forwarded from ">>

\* The literal "https://t.me/".
LinkHost == <<"https://t.me/">>

\* The literal 'Unknown'.
Unknown == <<"Unknown">>

\* Characters matched by \w among those the model uses.
WordChars == {"a", "b", "_"}

\* The characters PATTERN_URL (config.py) captures: the markup-control
\* characters of the target dialect.
EscChars == {"_", "*", "[", "]", "(", ")", "~", ">", "#", "+", "-",
             "=", "|", "{", "}", ".", "!"}

\* ------------------------------------------------------------------------
\* Sequence helpers
\* ------------------------------------------------------------------------

RECURSIVE Flatten(_)
Flatten(ss) == IF ss = <<>> THEN <<>> ELSE Head(ss) \o Flatten(Tail(ss))

\* Smallest index k >= from with P(k), or 0.
FirstFrom(n, from, P(_)) ==
    IF \E k \in from..n : P(k)
    THEN CHOOSE k \in from..n : P(k) /\ \A j \in from..(k - 1) : ~P(j)
    ELSE 0

Range(s) == {s[i] : i \in DOMAIN s}

\* str.lstrip('@')
RECURSIVE LStripAt(_)
LStripAt(s) == IF s # <<>> /\ Head(s) = "@" THEN LStripAt(Tail(s)) ELSE s

\* ------------------------------------------------------------------------
\* MarkupTranslator
\* ------------------------------------------------------------------------

\* re.sub(PATTERN_URL, r'\\\1', s): a backslash before every captured character.
EscapeSub(s) ==
    Flatten([i \in DOMAIN s |->
                IF s[i] \in EscChars THEN <<"\\", s[i]>> ELSE <<s[i]>>])

\* re.sub(PATTERN_URL, r'\\1', s): the template is an escaped backslash and
\* a literal 1, so every captured character is replaced by the two
\* characters \ and 1.
TitleSub(s) ==
    Flatten([i \in DOMAIN s |->
                IF s[i] \in EscChars THEN <<"\\", "1">> ELSE <<s[i]>>])

\* Position j lies in a match of @\w*_\w* : an @ precedes it with only word
\* characters in between.
InMention(text, j) ==
    \E i \in 1..(j - 1) :
        text[i] = "@" /\ \A k \in (i + 1)..j : text[k] \in WordChars

escape_telegram_usernames(text) ==
    Flatten([j \in DOMAIN text |->
                IF text[j] = "_" /\ InMention(text, j)
                THEN <<"\\", "_">> ELSE <<text[j]>>])

\* A match of \[([^]]+)]\(([^)]+)\) starting at i: <<end of label + 1, end>>,
\* or <<0, 0>>.
LinkAt(text, i) ==
    IF i > Len(text) \/ text[i] # "[" THEN <<0, 0>>
    ELSE LET n  == Len(text)
             e1 == FirstFrom(n, i + 1, LAMBDA k : text[k] = "]")
         IN  IF e1 < i + 2 \/ e1 + 1 > n \/ text[e1 + 1] # "(" THEN <<0, 0>>
             ELSE LET e2 == FirstFrom(n, e1 + 2, LAMBDA k : text[k] = ")")
                  IN  IF e2 < e1 + 3 THEN <<0, 0>> ELSE <<e1, e2>>

\* The finditer loop of escape_markdown_v2 from position pos on, with the
\* text after the last link.
RECURSIVE LinkLoop(_, _)
LinkLoop(text, pos) ==
    LET n == Len(text)
        i == FirstFrom(n, pos, LAMBDA k : LinkAt(text, k) # <<0, 0>>)
    IN  IF i = 0 THEN EscapeSub(SubSeq(text, pos, n))
        ELSE LET e == LinkAt(text, i)
                 before    == EscapeSub(SubSeq(text, pos, i - 1))
                 link_text == EscapeSub(SubSeq(text, i + 1, e[1] - 1))
                 url       == SubSeq(text, e[1] + 2, e[2] - 1)
             IN  before \o <<"[">> \o link_text \o <<"]", "(">> \o url
                   \o <<")">> \o LinkLoop(text, e[2] + 1)

\* A match of \*\*(.+?)\*\* starting at i: the index of its closing **, or 0.
BoldAt(text, i) ==
    LET n == Len(text)
    IN  IF i + 1 > n \/ text[i] # "*" \/ text[i + 1] # "*" THEN 0
        ELSE FirstFrom(n - 1, i + 3,
                 LAMBDA j : /\ text[j] = "*" /\ text[j + 1] = "*"
                            /\ \A k \in (i + 2)..(j - 1) : text[k] # "\n")

\* re.sub(r'\*\*(.+?)\*\*', r'*\1*', text) from position pos on.
RECURSIVE BoldSub(_, _)
BoldSub(text, pos) ==
    LET n == Len(text)
        i == FirstFrom(n, pos, LAMBDA k : BoldAt(text, k) # 0)
    IN  IF i = 0 THEN SubSeq(text, pos, n)
        ELSE LET j == BoldAt(text, i)
             IN  SubSeq(text, pos, i - 1) \o <<"*">>
                   \o SubSeq(text, i + 2, j - 1) \o <<"*">>
                   \o BoldSub(text, j + 2)

\* The formatting_rules loop.  The underline, italic, strikethrough and
\* spoiler rules replace every match by itself; only the bold rule rewrites.
FormattingRules(text) == BoldSub(text, 1)

escape_markdown_v2(text) ==
    FormattingRules(LinkLoop(escape_telegram_usernames(text), 1))

\* ------------------------------------------------------------------------
\* MessageGrouper
\* ------------------------------------------------------------------------

\* A message as the transport returns it.
Msg(i, g, c, t) == [id |-> i, grouped_id |-> g, chat_id |-> c, text |-> t]

\* key = m.grouped_id or m.id
KeyOf(m) == PyOr(m.grouped_id, m.id)

\* A faulty variant of the loop, which C7 must tell from the loop of the
\* code: a message of a key already present replaces the members collected.
RECURSIVE GroupLoopLossy(_, _, _, _)
GroupLoopLossy(messages, i, grouped, order) ==
    IF i > Len(messages) THEN <<grouped, order>>
    ELSE LET m   == messages[i]
             key == PyOr(m.grouped_id, m.id)
         IN  GroupLoopLossy(messages, i + 1,
                            [k \in DOMAIN grouped \cup {key} |->
                                IF k = key THEN <<m>> ELSE grouped[k]],
                            IF key \in DOMAIN grouped THEN order
                            ELSE Append(order, key))

\* The for loop of _group_messages from index i on: <<grouped, order>>.
RECURSIVE GroupLoop(_, _, _, _)
GroupLoop(messages, i, grouped, order) ==
    IF i > Len(messages) THEN <<grouped, order>>
    ELSE LET m   == messages[i]
             key == KeyOf(m)
         IN  IF key \notin DOMAIN grouped
             THEN GroupLoop(messages, i + 1,
                            [k \in DOMAIN grouped \cup {key} |->
                                IF k = key THEN <<m>> ELSE grouped[k]],
                            Append(order, key))
             ELSE GroupLoop(messages, i + 1,
                            [grouped EXCEPT ![key] = Append(@, m)], order)

\* A faulty variant of the insertion, which C15 must tell from the sort of
\* the code: the member is put in front whatever its id.
InsertFront(s, m) == <<m>> \o s

\* Insert m into a list sorted by id, after every member whose id is not
\* larger (sorted() is stable).
RECURSIVE InsertById(_, _)
InsertById(s, m) ==
    IF s = <<>> THEN <<m>>
    ELSE IF m.id < Head(s).id THEN <<m>> \o s
    ELSE <<Head(s)>> \o InsertById(Tail(s), m)

\* A faulty variant of the sort, which C9 must tell from the sort of the
\* code: the members stay in the order of the batch.
Unsorted(msgs) == msgs

\* sorted(msgs, key=lambda message: message.id)
RECURSIVE SortedById(_)
SortedById(msgs) ==
    IF msgs = <<>> THEN <<>>
    ELSE InsertById(SortedById(SubSeq(msgs, 1, Len(msgs) - 1)), msgs[Len(msgs)])

\* A faulty variant of the grouper, which C13 must tell from the code: the
\* posts come out in the reverse of the order in which their keys were seen.
GroupsLastSeenFirst(messages) ==
    LET r       == GroupLoop(messages, 1, [k \in {} |-> <<>>], <<>>)
        grouped == r[1]
        order   == r[2]
    IN  [j \in DOMAIN order |->
            SortedById(grouped[order[Len(order) + 1 - j]])]

_group_messages(messages) ==
    LET r       == GroupLoop(messages, 1, [k \in {} |-> <<>>], <<>>)
        grouped == r[1]
        order   == r[2]
    IN  [j \in DOMAIN order |-> SortedById(grouped[order[j]])]

\* ------------------------------------------------------------------------
\* PayloadBuilder
\* ------------------------------------------------------------------------

\* ''.join(m.text or '' for m in msgs)
JoinText(msgs) == Flatten([i \in DOMAIN msgs |-> msgs[i].text])

_build_payload(channel, msgs) ==
    LET text       == JoinText(msgs)
        first      == msgs[1]
        stripped   == LStripAt(channel)
        safe_title == TitleSub(IF stripped # <<>> THEN stripped ELSE Unknown)
        post_link  == LinkHost \o stripped \o <<"/", ToString(first.id)>>
        caption    == FwdPrefix \o <<"[">> \o safe_title \o <<"]", "(">>
                        \o post_link \o <<")", "\n", "\n">>
                        \o escape_markdown_v2(text)
    IN  [channel         |-> channel,
         text            |-> text,
         caption         |-> caption,
         message_id      |-> msgs[Len(msgs)].id,
         from_channel_id |-> msgs[Len(msgs)].chat_id]

\* format_caption(message, channel); channel is <<>> when it is empty or None.
format_caption(message, channel) ==
    LET source_title    == IF channel # <<>> THEN LStripAt(channel) ELSE Unknown
        source_username == IF channel # <<>> THEN LStripAt(channel) ELSE <<>>
        safe_title      == EscapeSub(source_title)
        post_link       == LinkHost \o source_username
                             \o <<"/", ToString(message.id)>>
        head == IF source_username # <<>>
                THEN FwdPrefix \o <<"[">> \o safe_title \o <<"]", "(">>
                       \o post_link \o <<")">>
                ELSE FwdPrefix \o safe_title
    IN  IF message.text # <<>>
        THEN head \o <<"\n", "\n">> \o escape_markdown_v2(message.text)
        ELSE head

\* ------------------------------------------------------------------------
\* The environment: chats, their histories, the configuration
\* ------------------------------------------------------------------------

\* CHANNELS (config.py): the configured identity of each monitored chat.
Channels == << <<"@", "a">>, <<"b">> >>

Chats == DOMAIN Channels

\* chat.username of each chat (<<>>: the chat has none).
ChatUsername == << <<"a">>, <<>> >>

\* chat.title of each chat.
ChatTitle == << <<"A">>, <<"B", "_">> >>

\* The chat whose messages arrive during listen sessions.
LiveChat == CHOOSE c \in Chats : \A d \in Chats : c <= d

\* The backfill limit: TelegramNewsBot(CHANNELS) takes the default, limit=2.
Limit == 2

\* grouped_id values of published messages: none, or that of an album (album
\* identifiers are large numbers, no message id comes near them).
GroupIds == {None, 7000}

\* Published messages are text messages, or parts of an album of media
\* without caption.
PostText(g) == IF g = None THEN <<"a">> ELSE <<>>

VARIABLES
    run,        \* what the bot is doing: idle, listen, backfill, crashed
    runs,       \* runs (backfill or listen) started so far
    registered, \* handlers registered on the client (one per listen start)
    hist,       \* hist[c]: the messages of chat c, oldest first
    tasks,      \* the update tasks of the current session, in arrival order
    sent,       \* self._sent_group_ids
    delivered,  \* the payloads the webhook received in the current run, each
                \* with the post it was built from and the task that sent it
    bf,         \* the position of fetch_messages
    pure        \* inputs and outputs of the pure functions (PureSpec)

vars == <<run, runs, registered, hist, tasks, sent, delivered, bf, pure>>

BfIdle == [stage |-> "off", ci |-> 0, groups |-> <<>>, gi |-> 0]

PureOff == [stage |-> "off", channel |-> <<>>, batch |-> <<>>,
            posts |-> <<>>, payloads |-> <<>>]

\* client.iter_messages(chat, limit): the newest `limit` messages, newest
\* first.
iter_messages(c, limit) ==
    LET h == hist[c]
        n == Len(h)
        k == IF limit < n THEN limit ELSE n
    IN  [i \in 1..k |-> h[n + 1 - i]]

RECURSIVE SumLen(_, _)
SumLen(h, cs) ==
    IF cs = {} THEN 0
    ELSE LET c == CHOOSE x \in cs : TRUE IN Len(h[c]) + SumLen(h, cs \ {c})

TotalMsgs == SumLen(hist, Chats)

\* __init__: an empty dedup set, no handler registered, nothing running.
Init ==
    /\ run = "idle"
    /\ runs = 0
    /\ registered = 0
    /\ hist = [c \in Chats |-> <<>>]
    /\ tasks = <<>>
    /\ sent = {}
    /\ delivered = <<>>
    /\ bf = BfIdle
    /\ pure = PureOff

\* A message is published in chat c.  While a listen session is connected
\* the client receives a NewMessage update and creates a task that will call
\* every registered handler in turn.  (Histories are read at the fetches
\* only, so a message published during a backfill run is taken to be
\* published before or after it.  To keep the state space small the other
\* chats are quiet while a session listens.)
Post(c, g) ==
    /\ run \in {"idle", "listen"}
    /\ c = LiveChat \/ run = "idle"
    /\ TotalMsgs < MaxMsgs
    /\ LET m == Msg(Len(hist[c]) + 1, g, c, PostText(g))
       IN  /\ hist' = [hist EXCEPT ![c] = Append(@, m)]
           /\ tasks' = IF run = "listen"
                       THEN Append(tasks, [msg |-> m, pc |-> "new",
                                           left |-> registered - 1,
                                           group |-> <<>>, outcome |-> "none"])
                       ELSE tasks
    /\ UNCHANGED <<run, runs, registered, sent, delivered, bf, pure>>

\* ------------------------------------------------------------------------
\* Listen mode
\* ------------------------------------------------------------------------

\* channel = chat.username if chat and chat.username else chat.title ...
\* (the chat of an update of a monitored channel is always known here).
ListenChannel(c) ==
    IF ChatUsername[c] # <<>> THEN ChatUsername[c] ELSE ChatTitle[c]

\* A faulty variant of the scan, which C14 must tell from the scan of the
\* code: the first group of the window is taken whatever its key.
FindAny(groups, gid) == IF groups = <<>> THEN 0 ELSE 1

\* The scan of the handler: the index of the first group whose key is gid,
\* or 0.
FindGroup(groups, gid) ==
    FirstFrom(Len(groups), 1, LAMBDA j : KeyOf(groups[j][1]) = gid)

\* A faulty variant of the dedup check, which C5 must tell from the check of
\* the code: no key is ever reported as seen.
SeenNever(gid) == FALSE

\* gid in self._sent_group_ids
Seen(gid) == gid \in sent

\* The task of an update whose handlers have all returned; outcome is what
\* the last of them did: skipped, notfound, failed or delivered.
Finished(task, outcome) ==
    [task EXCEPT !.pc = "done", !.left = 0, !.group = <<>>,
                 !.outcome = outcome]

\* A handler returned without marking its key (nothing found, or an
\* exception, which the client logs): the update's task calls the next
\* registered handler, which runs up to its own first await.
AfterReturn(task, outcome) ==
    IF task.left > 0
    THEN IF Seen(KeyOf(task.msg))
         THEN Finished(task, "skipped")
         ELSE [task EXCEPT !.pc = "fetching", !.left = @ - 1, !.group = <<>>]
    ELSE Finished(task, outcome)

\* A faulty variant of the session start, which C18 must tell from the code:
\* the dedup set is not cleared.
StartListenKeeps ==
    /\ run = "idle"
    /\ runs < MaxRuns
    /\ run' = "listen"
    /\ runs' = runs + 1
    /\ registered' = registered + 1
    /\ tasks' = <<>>
    /\ delivered' = <<>>
    /\ UNCHANGED <<hist, sent, bf, pure>>

\* listen_for_new_messages up to run_until_disconnected: the dedup set is
\* cleared, one more handler is registered, the client is started.
StartListen ==
    /\ run = "idle"
    /\ runs < MaxRuns
    /\ run' = "listen"
    /\ runs' = runs + 1
    /\ registered' = registered + 1
    /\ sent' = {}
    /\ tasks' = <<>>
    /\ delivered' = <<>>
    /\ UNCHANGED <<hist, bf, pure>>

\* The client is disconnected: run_until_disconnected returns.  The client
\* cancels the update tasks still in flight, so the session's tasks are
\* gone, and the session's log is closed.
Disconnect ==
    /\ run = "listen"
    /\ run' = "idle"
    /\ tasks' = <<>>
    /\ delivered' = <<>>
    /\ UNCHANGED <<runs, registered, hist, sent, bf, pure>>

\* handler, from its start to its first await: the dedup check.  The tasks
\* of the loop start in the order the updates arrived.
HandlerStart(t) ==
    /\ run = "listen"
    /\ tasks[t].pc = "new"
    /\ \A u \in 1..(t - 1) : tasks[u].pc # "new"
    /\ LET gid == KeyOf(tasks[t].msg)
       IN  tasks' = [tasks EXCEPT ![t] =
                        IF Seen(gid) THEN Finished(@, "skipped")
                        ELSE [@ EXCEPT !.pc = "fetching"]]
    /\ UNCHANGED <<run, runs, registered, hist, sent, delivered, bf, pure>>

\* A faulty variant of the scan's end, which C16 must tell from the code: a
\* handler that does not find its group marks the key all the same.
FetchDoneMarks(t) ==
    /\ run = "listen"
    /\ tasks[t].pc = "fetching"
    /\ LET msg    == tasks[t].msg
           gid    == PyOr(msg.grouped_id, msg.id)
           groups == _group_messages(iter_messages(msg.chat_id, Window))
           j      == FindGroup(groups, gid)
       IN  /\ tasks' = [tasks EXCEPT ![t] =
                            IF j # 0
                            THEN [@ EXCEPT !.pc = "sending", !.group = groups[j]]
                            ELSE AfterReturn(@, "notfound")]
           /\ sent' = IF j # 0 THEN sent ELSE sent \cup {gid}
    /\ UNCHANGED <<run, runs, registered, hist, delivered, bf, pure>>

\* handler, from the end of the history fetch to the webhook call: the
\* window is grouped and scanned for the event's group.
FetchDone(t) ==
    /\ run = "listen"
    /\ tasks[t].pc = "fetching"
    /\ LET msg    == tasks[t].msg
           gid    == KeyOf(msg)
           msgs   == iter_messages(msg.chat_id, Window)
           groups == _group_messages(msgs)
           j      == FindGroup(groups, gid)
       IN  tasks' = [tasks EXCEPT ![t] =
                        IF j # 0
                        THEN [@ EXCEPT !.pc = "sending", !.group = groups[j]]
                        ELSE AfterReturn(@, "notfound")]
    /\ UNCHANGED <<run, runs, registered, hist, sent, delivered, bf, pure>>

\* The history fetch raises.
FetchFail(t) ==
    /\ run = "listen"
    /\ tasks[t].pc = "fetching"
    /\ tasks' = [tasks EXCEPT ![t] = AfterReturn(@, "failed")]
    /\ UNCHANGED <<run, runs, registered, hist, sent, delivered, bf, pure>>

\* A faulty variant of the end of the handler, which C6 must tell from the
\* code: the payload is delivered and the key is not marked.
SendDoneNoMark(t) ==
    /\ run = "listen"
    /\ tasks[t].pc = "sending"
    /\ LET gid == PyOr(tasks[t].msg.grouped_id, tasks[t].msg.id)
           c   == tasks[t].msg.chat_id
       IN  delivered' = Append(delivered,
                            [mode |-> "listen", chat |-> c, key |-> gid,
                             group |-> tasks[t].group,
                             payload |-> _build_payload(ListenChannel(c),
                                                        tasks[t].group),
                             task |-> t])
    /\ tasks' = [tasks EXCEPT ![t] = [@ EXCEPT !.pc = "done", !.left = 0,
                                               !.group = <<>>,
                                               !.outcome = "delivered"]]
    /\ UNCHANGED <<run, runs, registered, hist, sent, bf, pure>>

\* handler, from the return of send_to_n8n to its end: the webhook has
\* received the payload built from the group found, and the key is marked.
SendDone(t) ==
    /\ run = "listen"
    /\ tasks[t].pc = "sending"
    /\ LET gid == KeyOf(tasks[t].msg)
           c   == tasks[t].msg.chat_id
       IN  /\ delivered' = Append(delivered,
                               [mode |-> "listen", chat |-> c, key |-> gid,
                                group |-> tasks[t].group,
                                payload |-> _build_payload(ListenChannel(c),
                                                           tasks[t].group),
                                task |-> t])
           /\ sent' = sent \cup {gid}
    /\ tasks' = [tasks EXCEPT ![t] = Finished(@, "delivered")]
    /\ UNCHANGED <<run, runs, registered, hist, bf, pure>>

\* A faulty variant of the failure, which C17 must tell from the code: the
\* key is marked although send_to_n8n raised.
SendFailMarks(t) ==
    /\ run = "listen"
    /\ tasks[t].pc = "sending"
    /\ tasks' = [tasks EXCEPT ![t] = AfterReturn(@, "failed")]
    /\ sent' = sent \cup {PyOr(tasks[t].msg.grouped_id, tasks[t].msg.id)}
    /\ UNCHANGED <<run, runs, registered, hist, delivered, bf, pure>>

\* send_to_n8n raises: the key is not marked.
SendFail(t) ==
    /\ run = "listen"
    /\ tasks[t].pc = "sending"
    /\ tasks' = [tasks EXCEPT ![t] = AfterReturn(@, "failed")]
    /\ UNCHANGED <<run, runs, registered, hist, sent, delivered, bf, pure>>

\* ------------------------------------------------------------------------
\* Backfill mode
\* ------------------------------------------------------------------------

\* fetch_messages: await self.client.start()
StartBackfill ==
    /\ run = "idle"
    /\ runs < MaxRuns
    /\ run' = "backfill"
    /\ runs' = runs + 1
    /\ bf' = [BfIdle EXCEPT !.stage = "fetch", !.ci = 1]
    /\ tasks' = <<>>
    /\ delivered' = <<>>
    /\ UNCHANGED <<registered, hist, sent, pure>>

\* A faulty variant of the advance, which C12 must tell from the loops of
\* the code: after the posts of a channel the next channel is passed over.
BfAdvanceSkip(b) ==
    IF b.gi < Len(b.groups)
    THEN [b EXCEPT !.stage = "send", !.gi = @ + 1]
    ELSE [stage |-> "fetch", ci |-> b.ci + 2, groups |-> <<>>, gi |-> 0]

\* The position after the post gi of the channel ci has been sent.
BfAdvance(b) ==
    IF b.gi < Len(b.groups)
    THEN [b EXCEPT !.stage = "send", !.gi = @ + 1]
    ELSE [BfIdle EXCEPT !.stage = "fetch", !.ci = b.ci + 1]

\* A faulty variant of the fetch, which C20 must tell from the code: the
\* posts whose key is in the dedup set are left out.
BackfillFetchUnseen ==
    /\ run = "backfill"
    /\ bf.stage = "fetch"
    /\ bf.ci <= Len(Channels)
    /\ LET groups == SelectSeq(_group_messages(iter_messages(bf.ci, Limit)),
                               LAMBDA g : PyOr(g[1].grouped_id, g[1].id)
                                              \notin sent)
       IN  bf' = BfAdvance([bf EXCEPT !.groups = groups, !.gi = 0])
    /\ UNCHANGED <<run, runs, registered, hist, tasks, sent, delivered, pure>>

\* The history of the next channel is fetched and grouped, and the payload
\* of the first post is handed to send_to_n8n.
BackfillFetch ==
    /\ run = "backfill"
    /\ bf.stage = "fetch"
    /\ bf.ci <= Len(Channels)
    /\ LET groups == _group_messages(iter_messages(bf.ci, Limit))
       IN  bf' = BfAdvance([bf EXCEPT !.groups = groups, !.gi = 0])
    /\ UNCHANGED <<run, runs, registered, hist, tasks, sent, delivered, pure>>

\* send_to_n8n returns, the webhook has received the payload of the post
\* gi: the next post, or the next channel.
BackfillSendDone ==
    /\ run = "backfill"
    /\ bf.stage = "send"
    /\ delivered' = Append(delivered,
                        [mode |-> "backfill", chat |-> bf.ci,
                         key |-> KeyOf(bf.groups[bf.gi][1]),
                         group |-> bf.groups[bf.gi],
                         payload |-> _build_payload(Channels[bf.ci],
                                                    bf.groups[bf.gi]),
                         task |-> 0])
    /\ bf' = BfAdvance(bf)
    /\ UNCHANGED <<run, runs, registered, hist, tasks, sent, pure>>

\* After the last channel: disconnect, and the run is over.
BackfillEnd ==
    /\ run = "backfill"
    /\ bf.stage = "fetch"
    /\ bf.ci > Len(Channels)
    /\ run' = "idle"
    /\ bf' = BfIdle
    /\ UNCHANGED <<runs, registered, hist, tasks, sent, delivered, pure>>

\* A faulty variant of the failure, which C19 must tell from the code: the
\* exception is swallowed and the run goes on with the next post or channel.
BackfillFailResumes ==
    /\ run = "backfill"
    /\ \/ bf.stage = "send"
       \/ bf.stage = "fetch" /\ bf.ci <= Len(Channels)
    /\ bf' = BfAdvance(bf)
    /\ UNCHANGED <<run, runs, registered, hist, tasks, sent, delivered, pure>>

\* A history fetch or a webhook call raises: nothing catches it, the run
\* ends with the exception.
BackfillFail ==
    /\ run = "backfill"
    /\ \/ bf.stage = "send"
       \/ bf.stage = "fetch" /\ bf.ci <= Len(Channels)
    /\ run' = "crashed"
    /\ bf' = [bf EXCEPT !.stage = "raised"]
    /\ UNCHANGED <<runs, registered, hist, tasks, sent, delivered, pure>>

Next ==
    \/ \E c \in Chats, g \in GroupIds : Post(c, g)
    \/ StartListen
    \/ Disconnect
    \/ \E t \in DOMAIN tasks : HandlerStart(t)
    \/ \E t \in DOMAIN tasks : FetchDone(t)
    \/ \E t \in DOMAIN tasks : FetchFail(t)
    \/ \E t \in DOMAIN tasks : SendDone(t)
    \/ \E t \in DOMAIN tasks : SendFail(t)
    \/ StartBackfill
    \/ BackfillFetch
    \/ BackfillSendDone
    \/ BackfillEnd
    \/ BackfillFail

Spec == Init /\ [][Next]_vars

\* The runs in which no transport call raises.
NextOK ==
    \/ \E c \in Chats, g \in GroupIds : Post(c, g)
    \/ StartListen
    \/ Disconnect
    \/ \E t \in DOMAIN tasks : HandlerStart(t)
    \/ \E t \in DOMAIN tasks : FetchDone(t)
    \/ \E t \in DOMAIN tasks : SendDone(t)
    \/ StartBackfill
    \/ BackfillFetch
    \/ BackfillSendDone
    \/ BackfillEnd

SpecOK == Init /\ [][NextOK]_vars

\* The event loop runs the tasks that can run: a created task starts, and a
\* webhook call that is pending returns.  (A session receives a bounded
\* number of events, so weak fairness of the step of some task lets no task
\* starve.  Nothing is assumed of the history fetches.)
LiveSpec ==
    /\ SpecOK
    /\ WF_vars(\E t \in DOMAIN tasks : HandlerStart(t))
    /\ WF_vars(\E t \in DOMAIN tasks : SendDone(t))

\* The behaviours in which the bot only runs fetch_messages and no transport
\* call raises.
BackfillNextOK ==
    \/ \E c \in Chats, g \in GroupIds : Post(c, g)
    \/ StartBackfill
    \/ BackfillFetch
    \/ BackfillSendDone
    \/ BackfillEnd

\* A history fetch that is pending returns, a webhook call that is pending
\* returns, and the code after the loops runs.
BackfillLiveSpec ==
    /\ Init
    /\ [][BackfillNextOK]_vars
    /\ WF_vars(BackfillFetch)
    /\ WF_vars(BackfillSendDone)
    /\ WF_vars(BackfillEnd)

\* ------------------------------------------------------------------------
\* The pure functions on arbitrary batches
\* ------------------------------------------------------------------------

\* grouped_id values of the batches: none, 0, and 2 (which is also an id).
PureGroupIds == {None, 0, 2}

\* chat_id and text of the messages of the batches.
PureKinds == {<<1, <<"a">> >>, <<1, <<>> >>, <<2, <<>> >>}

\* Channel identities handed to _build_payload.
PureChannels == {<<"@", "a">>, <<>>}

PurePool ==
    {Msg(i, g, k[1], k[2]) : i \in 1..MaxBatch, g \in PureGroupIds,
                             k \in PureKinds}

\* The batches: up to MaxBatch messages with distinct ids, in any order.
Batches ==
    UNION {{b \in [1..n -> PurePool] :
               \A i, j \in 1..n : i # j => b[i].id # b[j].id} : n \in 0..MaxBatch}

PureInit ==
    /\ run = "idle"
    /\ runs = 0
    /\ registered = 0
    /\ hist = [c \in Chats |-> <<>>]
    /\ tasks = <<>>
    /\ sent = {}
    /\ delivered = <<>>
    /\ bf = BfIdle
    /\ \E b \in Batches : pure = [PureOff EXCEPT !.stage = "input", !.batch = b]

\* posts = _group_messages(batch)
PureGroup ==
    /\ pure.stage = "input"
    /\ pure' = [pure EXCEPT !.stage = "grouped",
                            !.posts = _group_messages(pure.batch)]
    /\ UNCHANGED <<run, runs, registered, hist, tasks, sent, delivered, bf>>

\* payloads = [_build_payload(channel, post) for post in posts]
PureBuild(channel) ==
    /\ pure.stage = "grouped"
    /\ pure' = [pure EXCEPT !.stage = "built", !.channel = channel,
                    !.payloads = [j \in DOMAIN pure.posts |->
                                     _build_payload(channel, pure.posts[j])]]
    /\ UNCHANGED <<run, runs, registered, hist, tasks, sent, delivered, bf>>

PureNext ==
    \/ PureGroup
    \/ \E channel \in PureChannels : PureBuild(channel)

PureSpec == PureInit /\ [][PureNext]_vars

\* ------------------------------------------------------------------------
\* escape_markdown_v2 on texts that hold a link
\* ------------------------------------------------------------------------

\* Characters of the URLs: a letter, and the characters of mentions and of
\* the bold delimiter.
UrlChars == {"a", "_", "@", "*"}

Urls == UNION {[1..n -> UrlChars] : n \in 1..MaxUrl}

\* What stands before the link, and the label of the link.
Leads == {<<>>, <<"a", ".">>}

Labels == {<<"a">>, <<"a", "_">>}

\* The text lead [label](url).
LinkText(lead, label, url) ==
    lead \o <<"[">> \o label \o <<"]", "(">> \o url \o <<")">>

MarkupInit ==
    /\ run = "idle"
    /\ runs = 0
    /\ registered = 0
    /\ hist = [c \in Chats |-> <<>>]
    /\ tasks = <<>>
    /\ sent = {}
    /\ delivered = <<>>
    /\ bf = BfIdle
    /\ \E lead \in Leads, label \in Labels, url \in Urls :
          pure = [stage |-> "text", text |-> LinkText(lead, label, url),
                  out |-> <<>>]

\* out = escape_markdown_v2(text)
Translate ==
    /\ pure.stage = "text"
    /\ pure' = [pure EXCEPT !.stage = "translated",
                            !.out = escape_markdown_v2(pure.text)]
    /\ UNCHANGED <<run, runs, registered, hist, tasks, sent, delivered, bf>>

MarkupSpec == MarkupInit /\ [][Translate]_vars

\* ------------------------------------------------------------------------
\* Properties of the listen session
\* ------------------------------------------------------------------------

\* The log entries of the payloads delivered for the key k.
DeliveredFor(k) == {i \in DOMAIN delivered : delivered[i].key = k}

\* Every event the session has received has been handled.
AllHandled ==
    /\ run = "listen"
    /\ tasks # <<>>
    /\ \A t \in DOMAIN tasks : tasks[t].pc = "done"

\* C1: in one listen session at most one payload is delivered for any group
\* key, whatever the interleaving of the handlers at their awaits.
C1_AtMostOnePayloadPerKey ==
    \A i, j \in DOMAIN delivered :
        (/\ delivered[i].mode = "listen"
         /\ delivered[j].mode = "listen"
         /\ delivered[i].key = delivered[j].key) => i = j

\* C2: once a key is in the dedup set, no handler of the session calls
\* send_to_n8n for that key any more (the call is made when the handler goes
\* from the fetch to the send).
C2_NoCallAfterMark ==
    [][\A t \in DOMAIN tasks :
          (/\ t \in DOMAIN tasks'
           /\ tasks[t].pc = "fetching"
           /\ tasks'[t].pc = "sending") => KeyOf(tasks[t].msg) \notin sent]_vars

\* The payload of the log entry i holds every message of its key that the
\* chat holds.
Complete(i) ==
    Range(delivered[i].group) =
        {m \in Range(hist[delivered[i].chat]) : KeyOf(m) = delivered[i].key}

\* C3: with no transport failure and every history within the window, once
\* all events of the session are handled every album part whose event was
\* received is a member of the one payload delivered for the album's key.
\* (Stated for the sessions that favour the claim most: those in which no
\* payload was built before a later part of its album was published.)
C3_AlbumInOnePayload ==
    (/\ AllHandled
     /\ \A c \in Chats : Len(hist[c]) <= Window
     /\ \A i \in DOMAIN delivered : Complete(i)) =>
        \A t \in DOMAIN tasks :
            Truthy(tasks[t].msg.grouped_id) =>
                /\ Cardinality(DeliveredFor(tasks[t].msg.grouped_id)) = 1
                /\ \A i \in DeliveredFor(tasks[t].msg.grouped_id) :
                       tasks[t].msg \in Range(delivered[i].group)

\* C4: the events of a channel are handled one at a time and in arrival
\* order: a handler does not start its dedup check before the handlers of
\* the earlier events have finished, and deliveries follow arrival order.
C4_OneAtATimeInOrder ==
    /\ \A t1, t2 \in DOMAIN tasks :
          (/\ t1 < t2
           /\ tasks[t1].msg.chat_id = tasks[t2].msg.chat_id
           /\ tasks[t2].pc # "new") => tasks[t1].pc = "done"
    /\ \A i, j \in DOMAIN delivered :
          (/\ i < j
           /\ delivered[i].mode = "listen"
           /\ delivered[j].mode = "listen"
           /\ delivered[i].chat = delivered[j].chat)
              => delivered[i].task < delivered[j].task

\* C5: a handler that finds the key of its event in the dedup set returns at
\* once: it fetches nothing, calls no delivery and leaves the set unchanged.
C5_SeenKeyIsSkipped ==
    [][\A t \in DOMAIN tasks :
          (/\ t \in DOMAIN tasks'
           /\ tasks[t].pc = "new"
           /\ tasks'[t].pc # "new"
           /\ KeyOf(tasks[t].msg) \in sent)
              => /\ tasks'[t].pc = "done"
                 /\ tasks'[t].outcome = "skipped"
                 /\ sent' = sent
                 /\ delivered' = delivered]_vars

\* An event whose key was already marked has been handled.
C5_Witness ==
    \E t \in DOMAIN tasks :
        /\ tasks[t].outcome = "skipped"
        /\ KeyOf(tasks[t].msg) \in sent
        /\ \E i \in DOMAIN delivered :
              delivered[i].key = KeyOf(tasks[t].msg) /\ delivered[i].task # t

\* The handler of the event t passed the dedup check, found the group of its
\* event in the window fetched, and awaits the webhook.
Sending(t) ==
    /\ run = "listen"
    /\ t \in DOMAIN tasks
    /\ tasks[t].pc = "sending"

\* The payload of the event t is delivered, its key is marked and its handler
\* has returned.
Forwarded(t) ==
    /\ t \in DOMAIN tasks
    /\ tasks[t].pc = "done"
    /\ tasks[t].outcome = "delivered"
    /\ KeyOf(tasks[t].msg) \in sent
    /\ \E i \in DOMAIN delivered :
          /\ delivered[i].task = t
          /\ delivered[i].key = KeyOf(tasks[t].msg)

\* C6: with fair scheduling and no transport failure, an event whose key was
\* not marked when checked and whose group is in the window fetched leads to
\* the delivery of a payload of its key, the key marked and the handler
\* returned (unless the session is disconnected first).
C6_FoundGroupIsForwarded ==
    \A t \in 1..MaxMsgs : Sending(t) ~> (Forwarded(t) \/ run # "listen")

\* An event has been forwarded in a connected session.
C6_Witness == run = "listen" /\ \E t \in DOMAIN tasks : Forwarded(t)

\* ------------------------------------------------------------------------
\* Properties of the pure functions
\* ------------------------------------------------------------------------

\* The positions <<j, k>> of the posts at which the message m stands.
PlacesOf(m) ==
    {jk \in (DOMAIN pure.posts) \X (1..MaxBatch) :
        jk[2] \in DOMAIN pure.posts[jk[1]] /\ pure.posts[jk[1]][jk[2]] = m}

\* C7: the posts _group_messages returns partition its input: every message
\* of the batch stands in exactly one post, at one place, no post is empty,
\* and the posts hold nothing but the messages of the batch.
C7_PostsPartitionBatch ==
    pure.stage \in {"grouped", "built"} =>
        /\ \A i \in DOMAIN pure.batch : Cardinality(PlacesOf(pure.batch[i])) = 1
        /\ \A j \in DOMAIN pure.posts : pure.posts[j] # <<>>
        /\ UNION {Range(pure.posts[j]) : j \in DOMAIN pure.posts}
              = Range(pure.batch)

\* A batch has been grouped into several posts, one of them an album.
C7_Witness ==
    /\ pure.stage = "grouped"
    /\ Len(pure.posts) >= 2
    /\ \E j \in DOMAIN pure.posts : Len(pure.posts[j]) >= 2

\* C8: every post is homogeneous in group key: a message without grouped_id
\* is alone in its post, and the members of a post of several messages carry
\* one and the same grouped_id.
C8_PostsHomogeneous ==
    pure.stage \in {"grouped", "built"} =>
        \A j \in DOMAIN pure.posts :
            LET post == pure.posts[j]
            IN  /\ \A k \in DOMAIN post :
                      post[k].grouped_id = None => Len(post) = 1
                /\ \A k, l \in DOMAIN post :
                      post[k].grouped_id = post[l].grouped_id

\* C9: message_id and from_channel_id of every payload delivered, in backfill
\* or in listen mode, are the id and chat_id of the member of the post with
\* the largest id.
C9_IdsOfLargestMember ==
    \A i \in DOMAIN delivered :
        \E m \in Range(delivered[i].group) :
            /\ \A x \in Range(delivered[i].group) : x.id <= m.id
            /\ delivered[i].payload.message_id = m.id
            /\ delivered[i].payload.from_channel_id = m.chat_id

\* Payloads of albums of two parts, which the fetch returned newest first,
\* have been delivered in listen mode and in backfill mode.
C9_Witness ==
    \E i \in DOMAIN delivered :
        /\ Len(delivered[i].group) >= 2
        /\ delivered[i].payload.message_id = 2

\* C10: the caption of a payload whose text is empty is the attribution line
\* alone: it holds no line break.
C10_EmptyTextCaptionIsAttribution ==
    pure.stage = "built" =>
        \A j \in DOMAIN pure.payloads :
            pure.payloads[j].text = <<>> =>
                \A k \in DOMAIN pure.payloads[j].caption :
                    pure.payloads[j].caption[k] # "\n"

\* ------------------------------------------------------------------------
\* Properties of the markup translation
\* ------------------------------------------------------------------------

\* The URLs of the link spans of text from position pos on, as link_pattern
\* finds them.
RECURSIVE UrlsOf(_, _)
UrlsOf(text, pos) ==
    LET n == Len(text)
        i == FirstFrom(n, pos, LAMBDA k : LinkAt(text, k) # <<0, 0>>)
    IN  IF i = 0 THEN {}
        ELSE LET e == LinkAt(text, i)
             IN  {SubSeq(text, e[1] + 2, e[2] - 1)} \cup UrlsOf(text, e[2] + 1)

\* The sequence part stands somewhere in the sequence whole.
Occurs(part, whole) ==
    \E k \in 0..(Len(whole) - Len(part)) :
        SubSeq(whole, k + 1, k + Len(part)) = part

\* C11: the URL of every [label](url) span of the input stands unchanged,
\* between "](" and ")", in the output of escape_markdown_v2.
C11_UrlUnchanged ==
    pure.stage = "translated" =>
        \A url \in UrlsOf(pure.text, 1) :
            Occurs(<<"]", "(">> \o url \o <<")">>, pure.out)

\* ------------------------------------------------------------------------
\* Properties of the backfill run
\* ------------------------------------------------------------------------

\* The log entries of the payloads the backfill run delivered for chat c.
BackfillFor(c) ==
    {i \in DOMAIN delivered :
        delivered[i].mode = "backfill" /\ delivered[i].chat = c}

\* fetch_messages has returned, and a payload was delivered for every
\* configured channel that has messages.
BackfillOver ==
    /\ run = "idle"
    /\ bf = BfIdle
    /\ \A c \in Chats : hist[c] # <<>> => BackfillFor(c) # {}

\* C12: with no transport failure a backfill run reaches its end, every
\* configured channel processed, and nothing is delivered once it has ended.
C12_BackfillTerminates ==
    /\ (run = "backfill") ~> BackfillOver
    /\ [][run # "backfill" => (delivered' = delivered \/ delivered' = <<>>)]_vars

\* A run has ended after delivering payloads of both channels.
C12_Witness ==
    /\ BackfillOver
    /\ \A c \in Chats : BackfillFor(c) # {}

\* The keys of a batch in the order of their first appearance.
RECURSIVE FirstKeys(_)
FirstKeys(batch) ==
    IF batch = <<>> THEN <<>>
    ELSE LET front == FirstKeys(SubSeq(batch, 1, Len(batch) - 1))
             key   == KeyOf(batch[Len(batch)])
         IN  IF key \in Range(front) THEN front ELSE Append(front, key)

\* The pairs <<channel, key>> a backfill run has to deliver for the channels
\* from c on, in order.
RECURSIVE Expected(_)
Expected(c) ==
    IF c > Len(Channels) THEN <<>>
    ELSE LET keys == FirstKeys(iter_messages(c, Limit))
         IN  [j \in DOMAIN keys |-> <<c, keys[j]>>] \o Expected(c + 1)

\* The pairs <<channel, key>> of the payloads delivered, in order.
DeliveredPairs ==
    [i \in DOMAIN delivered |-> <<delivered[i].chat, delivered[i].key>>]

\* C13: a backfill run delivers, channel after channel in configured order,
\* one payload per distinct key of the batch fetched, in the order in which
\* the keys first appear in the batch, and no pair of channel and key twice.
C13_BackfillOnePerKeyInOrder ==
    run = "backfill" =>
        /\ Len(DeliveredPairs) <= Len(Expected(1))
        /\ DeliveredPairs = SubSeq(Expected(1), 1, Len(DeliveredPairs))
        /\ bf.ci > Len(Channels) => DeliveredPairs = Expected(1)
        /\ \A i, j \in DOMAIN DeliveredPairs :
              DeliveredPairs[i] = DeliveredPairs[j] => i = j

\* A run has served both channels, one of them with posts of two keys.
C13_Witness ==
    /\ run = "backfill"
    /\ bf.ci > Len(Channels)
    /\ \A c \in Chats : BackfillFor(c) # {}
    /\ \E c \in Chats : Cardinality(BackfillFor(c)) >= 2

\* ------------------------------------------------------------------------
\* Further properties of the listen session
\* ------------------------------------------------------------------------

\* The handler of the event t goes from the fetch to the webhook call.
Found(t) ==
    /\ t \in DOMAIN tasks'
    /\ tasks[t].pc = "fetching"
    /\ tasks'[t].pc = "sending"

\* The webhook call of the handler of the event t returns.
Sent(t) ==
    /\ t \in DOMAIN tasks'
    /\ tasks[t].pc = "sending"
    /\ tasks'[t].pc = "done"
    /\ tasks'[t].outcome = "delivered"

\* C14: the post a handler delivers holds exactly the messages of the window
\* it fetched whose key is the key of its event, each of them once.
C14_PostIsKeyOfWindow ==
    [][\A t \in DOMAIN tasks :
          /\ Found(t) =>
                LET msg    == tasks[t].msg
                    window == iter_messages(msg.chat_id, Window)
                    group  == tasks'[t].group
                IN  /\ Range(group) =
                          {m \in Range(window) : KeyOf(m) = KeyOf(msg)}
                    /\ Cardinality(Range(group)) = Len(group)
          /\ Sent(t) =>
                /\ Len(delivered') = Len(delivered) + 1
                /\ delivered'[Len(delivered')].task = t
                /\ delivered'[Len(delivered')].group = tasks[t].group
                /\ delivered'[Len(delivered')].payload.text
                      = JoinText(tasks[t].group)]_vars

\* The session has delivered an album of two parts, and a post from a window
\* that also holds a message of another key.
C14_Witness ==
    /\ \E i \in DOMAIN delivered :
          delivered[i].mode = "listen" /\ Len(delivered[i].group) >= 2
    /\ \E i \in DOMAIN delivered :
          /\ delivered[i].mode = "listen"
          /\ \E m \in Range(delivered[i].group) :
                \E k \in 2..Len(hist[m.chat_id]) :
                    /\ hist[m.chat_id][k] = m
                    /\ KeyOf(hist[m.chat_id][k - 1]) # delivered[i].key

\* ------------------------------------------------------------------------
\* Further properties of the pure functions
\* ------------------------------------------------------------------------

\* C15: the ids of the members of every post _group_messages returns are
\* strictly ascending, whatever the order of the batch.
C15_MemberIdsAscending ==
    pure.stage \in {"grouped", "built"} =>
        \A j \in DOMAIN pure.posts :
            \A k, l \in DOMAIN pure.posts[j] :
                k < l => pure.posts[j][k].id < pure.posts[j][l].id

\* A batch of one album, with two of its parts in descending order, has
\* been grouped into one post.
C15_Witness ==
    /\ pure.stage = "grouped"
    /\ \E a, b \in DOMAIN pure.batch :
          /\ a < b
          /\ pure.batch[a].id > pure.batch[b].id
          /\ KeyOf(pure.batch[a]) = KeyOf(pure.batch[b])
    /\ \E j \in DOMAIN pure.posts : Len(pure.posts[j]) = MaxBatch

\* No message of the window the handler of the event t fetches has the key
\* of the event.
NotInWindow(t) ==
    \A m \in Range(iter_messages(tasks[t].msg.chat_id, Window)) :
        KeyOf(m) # KeyOf(tasks[t].msg)

\* C16: a handler whose fetch returns a window without the group of its
\* event calls no delivery and leaves the dedup set as it is; and an event
\* whose key is not in the set is processed: its handler goes on to fetch.
C16_NotFoundLeavesNoTrace ==
    [][\A t \in DOMAIN tasks :
          /\ (/\ t \in DOMAIN tasks'
              /\ tasks[t].pc = "fetching"
              /\ tasks'[t] # tasks[t]
              /\ NotInWindow(t))
                 => /\ tasks'[t].pc # "sending"
                    /\ tasks'[t].outcome # "delivered"
                    /\ sent' = sent
                    /\ delivered' = delivered
          /\ (/\ t \in DOMAIN tasks'
              /\ tasks[t].pc = "new"
              /\ tasks'[t].pc # "new"
              /\ KeyOf(tasks[t].msg) \notin sent)
                 => tasks'[t].pc = "fetching"]_vars

\* The handler of an event has returned without finding its group: the
\* window had moved past the message; its key is not marked and nothing was
\* delivered for it.
C16_Witness ==
    \E t \in DOMAIN tasks :
        /\ tasks[t].outcome = "notfound"
        /\ KeyOf(tasks[t].msg) \notin sent
        /\ DeliveredFor(KeyOf(tasks[t].msg)) = {}
        /\ Len(hist[tasks[t].msg.chat_id]) > Window

\* The keys of the payloads whose delivery call has returned in the session.
DeliveredKeys ==
    {delivered[i].key : i \in {j \in DOMAIN delivered :
                                  delivered[j].mode = "listen"}}

\* C17: in a listen session the dedup set is the set of the keys whose
\* delivery call has returned in the session; a key enters the set only in
\* the step in which the delivery call of a handler of that key returns, and
\* no key leaves the set while the session lasts.
C17_SetIsDeliveredKeys ==
    /\ [](run = "listen" => sent = DeliveredKeys)
    /\ [][(run = "listen" /\ run' = "listen") =>
            /\ sent \subseteq sent'
            /\ sent' # sent =>
                  \E t \in DOMAIN tasks :
                      /\ Sent(t)
                      /\ sent' = sent \cup {KeyOf(tasks[t].msg)}]_vars

\* In a session one key is marked, and the handler of an event of another
\* key has ended with an exception, its key unmarked.
C17_Witness ==
    /\ run = "listen"
    /\ sent # {}
    /\ \E t \in DOMAIN tasks :
          tasks[t].outcome = "failed" /\ KeyOf(tasks[t].msg) \notin sent

\* C18: a listen session starts with an empty dedup set: the step that
\* starts a session leaves the set empty, and the set is empty as long as
\* the session has not handled an event.
C18_SessionStartsEmpty ==
    /\ [][(run # "listen" /\ run' = "listen") => sent' = {}]_vars
    /\ []((run = "listen" /\ \A t \in DOMAIN tasks : tasks[t].pc = "new")
            => sent = {})

\* A second session on the same bot has received an event and not yet
\* handled it.
C18_Witness ==
    /\ run = "listen"
    /\ registered = 2
    /\ tasks # <<>>
    /\ \A t \in DOMAIN tasks : tasks[t].pc = "new"
    /\ Len(hist[LiveChat]) >= 2

\* ------------------------------------------------------------------------
\* Further properties of the backfill run
\* ------------------------------------------------------------------------

\* The number of payloads a backfill run delivers for the channels before c.
Before(c) == Len(Expected(1)) - Len(Expected(c))

\* C19: in a backfill run a transport call either returns or ends the run:
\* a step of the run that does not complete the pending call leaves the run
\* failed with nothing delivered; a failed run stays failed and delivers
\* nothing more, so that its log holds the payloads before the failed call
\* and none of the remaining posts and channels.
C19_BackfillFailureIsFatal ==
    /\ [][run = "backfill" =>
             \/ run' = "crashed" /\ delivered' = delivered
             \/ bf.stage = "send" /\ Len(delivered') = Len(delivered) + 1
             \/ bf.stage = "fetch" /\ delivered' = delivered]_vars
    /\ [][run = "crashed" => (run' = "crashed" /\ delivered' = delivered)]_vars
    /\ [](run = "crashed" =>
            /\ Len(delivered)
                  = Before(bf.ci) + (IF bf.gi > 0 THEN bf.gi - 1 ELSE 0)
            /\ DeliveredPairs = SubSeq(Expected(1), 1, Len(delivered)))

\* A run has failed after its first deliveries, with posts left undelivered.
C19_Witness ==
    /\ run = "crashed"
    /\ delivered # <<>>
    /\ Len(delivered) + 2 <= Len(Expected(1))

\* C20: a backfill run leaves the dedup set as it found it, and when its
\* loops are over it has delivered every post of the batches fetched,
\* whatever keys the set holds.
C20_BackfillIgnoresDedupSet ==
    /\ [][(run = "backfill" \/ run' = "backfill") => sent' = sent]_vars
    /\ []((run = "backfill" /\ bf.ci > Len(Channels))
            => \A k \in DOMAIN Expected(1) :
                  \E i \in DOMAIN delivered :
                      /\ delivered[i].mode = "backfill"
                      /\ <<delivered[i].chat, delivered[i].key>> = Expected(1)[k])

\* A run that started with a key in the dedup set has delivered the post of
\* that key.
C20_Witness ==
    /\ run = "backfill"
    /\ bf.ci > Len(Channels)
    /\ \E i \in DOMAIN delivered :
          /\ delivered[i].mode = "backfill"
          /\ delivered[i].key \in sent
          /\ delivered[i].chat = LiveChat

============================================================================
